---- MODULE Spec2Model ----
(***************************************************************************)
(* A model of sudoku-rs (src/src/main.rs): the line-oriented main loop,    *)
(* the parser SudokuBoard::from_str, the fixed-point propagator, the       *)
(* most_promising heuristic and the recursive backtracking solve.          *)
(*                                                                         *)
(* Data representation.  A CandidateSet is a u32 bitset in which bit d-1   *)
(* stands for digit d.  It is modelled as the set of its digits, a subset  *)
(* of 1..9: `a & !b` is a \ b, `a | b` is a \cup b, count_ones is          *)
(* Cardinality, `1 << c` is {c+1} and EMPTY_SET is {}.  No operation of    *)
(* the program leaves the low nine bits, so no width is lost.  A board is  *)
(* a function from the cell indices 0..80 to candidate sets.  Text is a    *)
(* sequence of one-character strings.                                      *)
(***************************************************************************)
EXTENDS Integers, Sequences, FiniteSets, TLC

\* ------------------------------------------------------------ constants

NSQRT == 3
N == NSQRT * NSQRT
NSQ == N * N

Cells == 0 .. (NSQ - 1)

EMPTY_SET == {}
FULL_SET == 1 .. 9

\* ------------------------------------------------------------- geometry

row(cell) == cell \div N

col(cell) == cell % N

group(cell) ==
  LET r == row(cell)
      c == col(cell)
  IN  (N * (r - (r % NSQRT))) + (c - (c % NSQRT))

\* Faulty variant of neighbors_of: the loop over the cell's group is left
\* out, so only the row and the column constrain a cell.
neighbors_of_RowColOnly(cell) ==
  ({(N * row(cell)) + i : i \in 0 .. (N - 1)}
     \cup {(N * i) + col(cell) : i \in 0 .. (N - 1)}) \ {cell}

\* Faulty variant of neighbors_of: all_neighbors.remove(&cell) is left out,
\* so a cell is its own neighbour.
neighbors_of_WithSelf(cell) ==
  LET leader == group(cell)
  IN  {(N * row(cell)) + i : i \in 0 .. (N - 1)}
        \cup {(N * i) + col(cell) : i \in 0 .. (N - 1)}
        \cup {N * r + c : r \in row(leader) .. (row(leader) + NSQRT - 1),
                          c \in col(leader) .. (col(leader) + NSQRT - 1)}

neighbors_of(cell) ==
  LET leader == group(cell)
      inRowCol == {(N * row(cell)) + i : i \in 0 .. (N - 1)}
                    \cup {(N * i) + col(cell) : i \in 0 .. (N - 1)}
      inGroup == {N * r + c : r \in row(leader) .. (row(leader) + NSQRT - 1),
                              c \in col(leader) .. (col(leader) + NSQRT - 1)}
  IN  (inRowCol \cup inGroup) \ {cell}

\* The `neighbors` field every board carries: built once per board by
\* from_str, cloned by propagate, never written.
neighbors == [i \in Cells |-> neighbors_of(i)]

\* ----------------------------------------------------- per-cell queries

cell_solved(cells, cell) == Cardinality(cells[cell]) = 1

cell_solvable(cells, cell) == cells[cell] # EMPTY_SET

solved(cells) == \A cell \in Cells : cell_solved(cells, cell)

solvable(cells) == \A cell \in Cells : cell_solvable(cells, cell)

non_candidates(cells, cell) ==
  UNION {cells[n] : n \in {m \in neighbors[cell] : cell_solved(cells, m)}}

\* ------------------------------------------------------------ propagate

\* Faulty variant of PropagateCell: candidates_changed is overwritten by the
\* comparison instead of or-ed with it, so only the last cell's change counts.
PropagateCellLastChange(cells, i, candidates_changed) ==
  LET q == cells[i] \ non_candidates(cells, i)
  IN  [cells |-> [cells EXCEPT ![i] = q],
       changed |-> (q # cells[i])]

\* The body of propagate's `for i in 0 .. NSQ`, for the one cell i: the
\* cells and candidates_changed after it.
PropagateCell(cells, i, candidates_changed) ==
  LET q == cells[i] \ non_candidates(cells, i)
  IN  [cells |-> [cells EXCEPT ![i] = q],
       changed |-> candidates_changed \/ (q # cells[i])]

\* The iterations lo, lo + 1, ..., hi - 1 of that loop, in this order.  The
\* range is split in two halves run one after the other, which keeps the
\* nesting of the evaluation logarithmic in the length of the loop; `first`
\* is bound to the value the first half ends with, and the second half
\* starts from it.
RECURSIVE PropagateRange(_, _, _, _)
PropagateRange(cells, lo, hi, candidates_changed) ==
  IF hi <= lo
  THEN [cells |-> cells, changed |-> candidates_changed]
  ELSE IF hi = lo + 1
       THEN PropagateCell(cells, lo, candidates_changed)
       ELSE LET mid == (lo + hi) \div 2
            IN  CHOOSE second \in
                  {PropagateRange(first.cells, mid, hi, first.changed) :
                     first \in {PropagateRange(cells, lo, mid, candidates_changed)}} :
                  TRUE

\* Faulty variant of PropagatePass: the pass runs over 0 .. N, the first row,
\* instead of 0 .. NSQ.
PropagatePassFirstRow(cells) == PropagateRange(cells, 0, N, FALSE)

\* One iteration of propagate's outer `loop`: candidates_changed = false,
\* then the pass over all the cells.
PropagatePass(cells) == PropagateRange(cells, 0, NSQ, FALSE)

\* ------------------------------------------------------- most_promising

\* Faulty variant of MostPromisingCell: solved cells are not skipped.
MostPromisingCellAny(cells, i, m) ==
  LET len == Cardinality(cells[i])
  IN  IF len < m.min_len
      THEN [min_len |-> len, min_index |-> i]
      ELSE m

\* The body of most_promising's loop for the one cell i, on the pair
\* (min_len, min_index).
MostPromisingCell(cells, i, m) ==
  IF cell_solved(cells, i)
  THEN m
  ELSE LET len == Cardinality(cells[i])
       IN  IF len < m.min_len
           THEN [min_len |-> len, min_index |-> i]
           ELSE m

\* The iterations lo .. hi - 1 of that loop, in this order (split in halves
\* as in PropagateRange).
RECURSIVE MostPromisingRange(_, _, _, _)
MostPromisingRange(cells, lo, hi, m) ==
  IF hi <= lo
  THEN m
  ELSE IF hi = lo + 1
       THEN MostPromisingCell(cells, lo, m)
       ELSE LET mid == (lo + hi) \div 2
            IN  CHOOSE second \in
                  {MostPromisingRange(cells, mid, hi, first) :
                     first \in {MostPromisingRange(cells, lo, mid, m)}} :
                  TRUE

\* Option<usize>: None is [some |-> FALSE], Some(i) is [some |-> TRUE, idx |-> i].
most_promising(cells) ==
  LET m == MostPromisingRange(cells, 0, NSQ, [min_len |-> N, min_index |-> NSQ])
  IN  IF m.min_index = NSQ
      THEN [some |-> FALSE, idx |-> NSQ]
      ELSE [some |-> TRUE, idx |-> m.min_index]

\* ----------------------------------------------------------------- text

DigitChar == <<"1", "2", "3", "4", "5", "6", "7", "8", "9">>

DigitChars == {DigitChar[n] : n \in 1 .. 9}

\* char::to_digit(10) on '1' ... '9'.
to_digit(d) == CHOOSE n \in 1 .. 9 : DigitChar[n] = d

\* The characters of the modelled alphabet that str::trim removes.
WhiteSpace == {" ", "\t", "\n", "\r"}

RECURSIVE TrimStart(_)
TrimStart(s) ==
  IF Len(s) > 0 /\ Head(s) \in WhiteSpace THEN TrimStart(Tail(s)) ELSE s

RECURSIVE TrimEnd(_)
TrimEnd(s) ==
  IF Len(s) > 0 /\ s[Len(s)] \in WhiteSpace
  THEN TrimEnd(SubSeq(s, 1, Len(s) - 1))
  ELSE s

trim(s) == TrimEnd(TrimStart(s))

\* The bit length of s: the loop shifts s right until it is zero and counts
\* the shifts, which is the position of the highest set bit.
get_singleton(s) == IF s = EMPTY_SET THEN 0 ELSE CHOOSE d \in s : \A e \in s : e <= d

to_str(cells) ==
  [k \in 1 .. NSQ |->
     IF cell_solved(cells, k - 1)
     THEN DigitChar[get_singleton(cells[k - 1])]
     ELSE "."]

\* The characters from_str's match accepts: '.' and '1' ... '9'.
BoardChars == {"."} \cup DigitChars

\* The index of the first character of digits that falls to the `_` arm of
\* from_str's match; Len(digits) + 1 when there is none.
FirstBadChar(digits) ==
  LET bad == {k \in 1 .. Len(digits) : digits[k] \notin BoardChars}
  IN  IF bad = {}
      THEN Len(digits) + 1
      ELSE CHOOSE k \in bad : \A j \in bad : k <= j

\* Faulty variant of from_str: the length test is `<` instead of `!=`, so a
\* text longer than 81 characters passes it.
from_str_ShortOnly(digits) ==
  IF Len(digits) < NSQ
  THEN [ok |-> FALSE,
        msg |-> <<"error: ", "invalid puzzle length; expected ",
                  ToString(NSQ), ", got ", ToString(Len(digits))>>,
        cells |-> <<>>]
  ELSE LET bad == FirstBadChar(digits)
       IN  IF bad <= Len(digits)
           THEN [ok |-> FALSE,
                 msg |-> <<"error: ", "invalid digit ('", digits[bad],
                           "') in string">>,
                 cells |-> <<>>]
           ELSE [ok |-> TRUE,
                 msg |-> <<>>,
                 cells |-> [i \in Cells |->
                              IF digits[i + 1] = "."
                              THEN FULL_SET
                              ELSE {to_digit(digits[i + 1])}]]

\* from_str: either the board's cells, or the message error() prints before
\* it ends the process.
from_str(digits) ==
  IF Len(digits) # NSQ
  THEN [ok |-> FALSE,
        msg |-> <<"error: ", "invalid puzzle length; expected ",
                  ToString(NSQ), ", got ", ToString(Len(digits))>>,
        cells |-> <<>>]
  ELSE LET bad == FirstBadChar(digits)
       IN  IF bad <= Len(digits)
           THEN [ok |-> FALSE,
                 msg |-> <<"error: ", "invalid digit ('", digits[bad],
                           "') in string">>,
                 cells |-> <<>>]
           ELSE [ok |-> TRUE,
                 msg |-> <<>>,
                 cells |-> [i \in Cells |->
                              IF digits[i + 1] = "."
                              THEN FULL_SET
                              ELSE {to_digit(digits[i + 1])}]]

\* --------------------------------------------------------------- inputs

\* A complete valid grid (the one of the forced-single-blank scenario), from
\* which the puzzle lines fed to the program are derived.
BaseGrid ==
  <<5, 3, 4, 6, 7, 8, 9, 1, 2,
    6, 7, 2, 1, 9, 5, 3, 4, 8,
    1, 9, 8, 3, 4, 2, 5, 6, 7,
    8, 5, 9, 7, 6, 1, 4, 2, 3,
    4, 2, 6, 8, 5, 3, 7, 9, 1,
    7, 1, 3, 9, 2, 4, 8, 5, 6,
    9, 6, 1, 5, 3, 7, 2, 8, 4,
    2, 8, 7, 4, 1, 9, 6, 3, 5,
    3, 4, 5, 2, 8, 6, 1, 7, 9>>

\* The 81 characters of BaseGrid with every digit of digs and every row of
\* rows blanked, and then the characters of ov written over it (ov maps
\* positions 1..81 to characters).
PuzzleText(digs, rows, ov) ==
  [k \in 1 .. NSQ |->
     IF k \in DOMAIN ov
     THEN ov[k]
     ELSE IF BaseGrid[k] \in digs \/ row(k - 1) \in rows
          THEN "."
          ELSE DigitChar[BaseGrid[k]]]

NoOverride == [k \in {} |-> "."]

\* The order of propagate's `for i in 0 .. NSQ`, as a sequence of cells.
CodeOrder == [k \in 1 .. NSQ |-> k - 1]

BlankedDigits == {{}, {1}, {1, 2}, {1, 2, 3, 4}, {2, 5, 8}}

BlankedRows == {{}, {0}, {0, 1, 2, 3}, 0 .. (N - 1)}

Overrides ==
  {NoOverride,
   1 :> ".",
   (1 :> "5") @@ (2 :> "5"),
   81 :> "1",
   41 :> "9",
   1 :> "1"}

\* The puzzle texts solved one per run: 81 characters of {'.', '1'..'9'}.
Puzzles ==
  {PuzzleText(d, r, ov) : d \in BlankedDigits, r \in BlankedRows, ov \in Overrides}

\* The lines from which multi-line inputs are drawn: well-formed puzzles,
\* puzzles wrapped in white space, and malformed lines.
ShortText == SubSeq(PuzzleText({1}, {}, NoOverride), 1, NSQ - 1)

LineTexts ==
  {PuzzleText({}, {}, 1 :> "."),
   PuzzleText({1, 2}, {}, NoOverride),
   PuzzleText({}, 0 .. (N - 1), NoOverride),
   PuzzleText({}, 0 .. (N - 1), (1 :> "5") @@ (2 :> "5")),
   <<" ">> \o PuzzleText({1}, {0}, NoOverride) \o <<" ">>,
   <<"\t">> \o PuzzleText({}, {}, NoOverride),
   PuzzleText({}, {}, NoOverride) \o <<"\r">>,
   ShortText,
   PuzzleText({1}, {}, NoOverride) \o <<"1">>,
   PuzzleText({1}, {}, 5 :> "x"),
   PuzzleText({1}, {}, 81 :> "0"),
   PuzzleText({1}, {}, 9 :> " "),
   <<>>}

\* What read_line hands over: the text up to and including its newline.
WithNewline(text) == text \o <<"\n">>

MaxLines == 2

\* stdin: one puzzle of Puzzles, or up to MaxLines lines of LineTexts.  Every
\* line ends with its newline except, possibly, the last one before the end
\* of input.
RECURSIVE LineSeqs(_)
LineSeqs(n) ==
  IF n = 0
  THEN {<<>>}
  ELSE LET shorter == LineSeqs(n - 1)
       IN  shorter
             \cup {Append(s, WithNewline(t)) :
                     s \in {x \in shorter : Len(x) = n - 1}, t \in LineTexts}

Unterminated(s) ==
  [s EXCEPT ![Len(s)] = SubSeq(s[Len(s)], 1, Len(s[Len(s)]) - 1)]

Inputs ==
  {<<WithNewline(p)>> : p \in Puzzles}
    \cup LineSeqs(MaxLines)
    \cup {Unterminated(s) :
            s \in {x \in LineSeqs(MaxLines) : Len(x) > 0 /\ Len(x[Len(x)]) > 1}}

\* ---------------------------------------------------------------- state

VARIABLES
  input,    \* stdin: the sequence of lines still to be, or already, read
  pos,      \* the number of lines read_line has returned
  buf,      \* main's line buffer
  sb,       \* main's board, the cells from_str returned
  stack,    \* the active calls of solve, outermost first
  ret,      \* the Option<SudokuBoard> the last finished solve returned
  out,      \* stdout: the lines printed so far
  pc,       \* where the program is
  order,    \* a visitation order of the 81 cells, for the comparison run
  alt,      \* the board the comparison run propagates in that order
  altdone   \* the comparison run has made a pass that changed nothing

vars == <<input, pos, buf, sb, stack, ret, out, pc, order, alt, altdone>>

None == [some |-> FALSE, cells |-> <<>>]

Some(cells) == [some |-> TRUE, cells |-> cells]

\* A call of solve: propagate's clone of self, which becomes newboard when
\* propagate returns it, and the locals of the branching loop.
Frame(self) ==
  [newboard |-> self, cell |-> NSQ, cell_candidates |-> EMPTY_SET, c |-> 0]

Top == stack[Len(stack)]

Pop == SubSeq(stack, 1, Len(stack) - 1)

SetTop(f) == [stack EXCEPT ![Len(stack)] = f]

Init ==
  /\ input \in Inputs
  /\ pos = 0
  /\ buf = <<>>
  /\ sb = <<>>
  /\ stack = <<>>
  /\ ret = None
  /\ out = <<>>
  /\ pc = "read"
  /\ order = CodeOrder
  /\ alt = <<>>
  /\ altdone = TRUE

\* ----------------------------------------------------------------- main

\* stdin.read_line at the end of input: Ok(0), main returns.
MainEof ==
  /\ pc = "read"
  /\ pos = Len(input)
  /\ pc' = "exit"
  /\ UNCHANGED <<alt, order, altdone, input, pos, buf, sb, stack, ret, out>>

\* buf.clear() and stdin.read_line: the next line, newline included.
MainReadLine ==
  /\ pc = "read"
  /\ pos < Len(input)
  /\ buf' = input[pos + 1]
  /\ pos' = pos + 1
  /\ pc' = "from_str"
  /\ UNCHANGED <<alt, order, altdone, input, sb, stack, ret, out>>

\* Faulty variant of MainFromStrError: error() prints its message and
\* returns instead of ending the process, and main goes on to the next line.
MainFromStrErrorGoesOn ==
  /\ pc = "from_str"
  /\ LET r == from_str(trim(buf))
     IN  /\ ~r.ok
         /\ out' = Append(out, r.msg)
  /\ pc' = "read"
  /\ UNCHANGED <<alt, order, altdone, input, pos, buf, sb, stack, ret>>

\* SudokuBoard::from_str(&buf.trim()) when it calls error(): the message is
\* printed and the process exits with status 1.
MainFromStrError ==
  /\ pc = "from_str"
  /\ LET r == from_str(trim(buf))
     IN  /\ ~r.ok
         /\ out' = Append(out, r.msg)
  /\ pc' = "fatal"
  /\ UNCHANGED <<alt, order, altdone, input, pos, buf, sb, stack, ret>>

\* SudokuBoard::from_str(&buf.trim()) when it returns, and the call
\* sb.solve(), which starts with propagate's clone of the board.
MainFromStrOk ==
  /\ pc = "from_str"
  /\ LET r == from_str(trim(buf))
     IN  /\ r.ok
         /\ sb' = r.cells
         /\ stack' = <<Frame(r.cells)>>
  /\ pc' = "propagate"
  /\ UNCHANGED <<alt, order, altdone, input, pos, buf, ret, out>>

\* The match on what sb.solve() returned, and its println.
MainPrint ==
  /\ pc = "return"
  /\ stack = <<>>
  /\ out' = Append(out, IF ret.some THEN to_str(ret.cells) ELSE <<"No solution">>)
  /\ pc' = "read"
  /\ UNCHANGED <<alt, order, altdone, input, pos, buf, sb, stack, ret>>

\* ---------------------------------------------------------------- solve

\* One iteration of propagate's loop: a pass over the cells, then the test
\* of candidates_changed.
PropagateLoop ==
  /\ pc = "propagate"
  /\ LET r == PropagatePass(Top.newboard)
     IN  /\ stack' = SetTop([Top EXCEPT !.newboard = r.cells])
         /\ pc' = IF r.changed THEN "propagate" ELSE "propagated"
  /\ UNCHANGED <<alt, order, altdone, input, pos, buf, sb, ret, out>>

\* if newboard.solved() { return Some(newboard); }
SolveSolved ==
  /\ pc = "propagated"
  /\ solved(Top.newboard)
  /\ ret' = Some(Top.newboard)
  /\ stack' = Pop
  /\ pc' = "return"
  /\ UNCHANGED <<alt, order, altdone, input, pos, buf, sb, out>>

\* if !newboard.solvable() { return None; }
SolveUnsolvable ==
  /\ pc = "propagated"
  /\ ~solved(Top.newboard)
  /\ ~solvable(Top.newboard)
  /\ ret' = None
  /\ stack' = Pop
  /\ pc' = "return"
  /\ UNCHANGED <<alt, order, altdone, input, pos, buf, sb, out>>

\* if let Some(cell) = newboard.most_promising(): enter the loop over c.
SolveBranch ==
  /\ pc = "propagated"
  /\ ~solved(Top.newboard)
  /\ solvable(Top.newboard)
  /\ LET mp == most_promising(Top.newboard)
     IN  /\ mp.some
         /\ stack' = SetTop([Top EXCEPT !.cell = mp.idx,
                                        !.cell_candidates = Top.newboard[mp.idx],
                                        !.c = 0])
  /\ pc' = "loop"
  /\ UNCHANGED <<alt, order, altdone, input, pos, buf, sb, ret, out>>

\* most_promising returned None: the if let is skipped, return None.
SolveNoCell ==
  /\ pc = "propagated"
  /\ ~solved(Top.newboard)
  /\ solvable(Top.newboard)
  /\ ~most_promising(Top.newboard).some
  /\ ret' = None
  /\ stack' = Pop
  /\ pc' = "return"
  /\ UNCHANGED <<alt, order, altdone, input, pos, buf, sb, out>>

\* Faulty variant of HasBit: the test of the candidate's bit is left out and
\* every digit is tried.
HasBitAlways(cell_candidates, c) == TRUE

\* cell_candidates & (1 << c)
HasBit(cell_candidates, c) == (c + 1) \in cell_candidates

\* if cell_candidates & (1 << c) == 0 { continue; }
LoopContinue ==
  /\ pc = "loop"
  /\ Top.c < N
  /\ ~HasBit(Top.cell_candidates, Top.c)
  /\ stack' = SetTop([Top EXCEPT !.c = Top.c + 1])
  /\ UNCHANGED <<alt, order, altdone, input, pos, buf, sb, ret, out, pc>>

\* newboard.cells[cell] = 1 << c; newboard.solve()
LoopRecurse ==
  /\ pc = "loop"
  /\ Top.c < N
  /\ HasBit(Top.cell_candidates, Top.c)
  /\ LET narrowed == [Top.newboard EXCEPT ![Top.cell] = {Top.c + 1}]
     IN  stack' = Append(SetTop([Top EXCEPT !.newboard = narrowed]),
                         Frame(narrowed))
  /\ pc' = "propagate"
  /\ UNCHANGED <<alt, order, altdone, input, pos, buf, sb, ret, out>>

\* The loop over c is exhausted: return None.
LoopExhausted ==
  /\ pc = "loop"
  /\ Top.c = N
  /\ ret' = None
  /\ stack' = Pop
  /\ pc' = "return"
  /\ UNCHANGED <<alt, order, altdone, input, pos, buf, sb, out>>

\* Some(solved_board) => { return Some(solved_board); }
ReturnSome ==
  /\ pc = "return"
  /\ stack # <<>>
  /\ ret.some
  /\ stack' = Pop
  /\ UNCHANGED <<alt, order, altdone, input, pos, buf, sb, ret, out, pc>>

\* None => { }: on to the next c.
ReturnNone ==
  /\ pc = "return"
  /\ stack # <<>>
  /\ ~ret.some
  /\ stack' = SetTop([Top EXCEPT !.c = Top.c + 1])
  /\ pc' = "loop"
  /\ UNCHANGED <<alt, order, altdone, input, pos, buf, sb, ret, out>>

Next ==
  \/ MainEof
  \/ MainReadLine
  \/ MainFromStrError
  \/ MainFromStrOk
  \/ MainPrint
  \/ PropagateLoop
  \/ SolveSolved
  \/ SolveUnsolvable
  \/ SolveBranch
  \/ SolveNoCell
  \/ LoopContinue
  \/ LoopRecurse
  \/ LoopExhausted
  \/ ReturnSome
  \/ ReturnNone

Spec == Init /\ [][Next]_vars

LiveSpec == Spec /\ WF_vars(Next)

\* ------------------------------------- propagation in another cell order

\* propagate's pass with the cells visited in the order given: the same
\* update, cell := cell minus the digits of its solved neighbours.
RECURSIVE PassInOrder(_, _, _, _, _)
PassInOrder(cells, ord, lo, hi, changed) ==
  IF hi < lo
  THEN [cells |-> cells, changed |-> changed]
  ELSE IF hi = lo
       THEN LET i == ord[lo]
                solvedNeighbours == {m \in neighbors[i] : Cardinality(cells[m]) = 1}
                q == cells[i] \ UNION {cells[n] : n \in solvedNeighbours}
            IN  [cells |-> [cells EXCEPT ![i] = q],
                 changed |-> changed \/ (q # cells[i])]
       ELSE LET mid == (lo + hi) \div 2
            IN  CHOOSE second \in
                  {PassInOrder(first.cells, ord, mid + 1, hi, first.changed) :
                     first \in {PassInOrder(cells, ord, lo, mid, changed)}} :
                  TRUE

ReverseOrder == [k \in 1 .. NSQ |-> NSQ - k]

ColumnOrder == [k \in 1 .. NSQ |-> (N * ((k - 1) % N)) + ((k - 1) \div N)]

\* Every s-th cell, wrapping around; a permutation when 3 does not divide s.
StrideOrder(s) == [k \in 1 .. NSQ |-> ((k - 1) * s) % NSQ]

Orders == {CodeOrder, ReverseOrder, ColumnOrder, StrideOrder(2), StrideOrder(7)}

\* Boards handed to propagate: the parsed puzzles, and those boards with a
\* few cells narrowed the way a search narrows them (to one digit or to a
\* pair), which makes some of them inconsistent.
Narrowings ==
  {[i \in {} |-> {}],
   0 :> {1, 5},
   (0 :> {5}) @@ (1 :> {5}),
   (3 :> {6, 7}) @@ (40 :> {5, 9}),
   (10 :> {7}) @@ (80 :> {7})}

Narrow(cells, nar) ==
  [i \in Cells |-> IF i \in DOMAIN nar THEN cells[i] \cap nar[i] ELSE cells[i]]

PropPuzzles ==
  {PuzzleText(d, r, ov) :
     d \in {{}, {1, 2}, {1, 2, 3, 4}},
     r \in {{}, {0}, 0 .. (N - 1)},
     ov \in {NoOverride, (1 :> "5") @@ (2 :> "5"), 81 :> "1"}}

PropBoards == {Narrow(from_str(p).cells, nar) : p \in PropPuzzles, nar \in Narrowings}

\* propagate called on a board, beside a run of the same loop in another
\* order on the same board.
InitProp ==
  /\ input = <<>>
  /\ pos = 0
  /\ buf = <<>>
  /\ sb \in PropBoards
  /\ stack = <<Frame(sb)>>
  /\ ret = None
  /\ out = <<>>
  /\ pc = "propagate"
  /\ order \in Orders
  /\ alt = sb
  /\ altdone = FALSE

AltPass ==
  /\ ~altdone
  /\ LET r == PassInOrder(alt, order, 1, Len(order), FALSE)
     IN  /\ alt' = r.cells
         /\ altdone' = ~r.changed
  /\ UNCHANGED <<input, pos, buf, sb, stack, ret, out, pc, order>>

NextProp ==
  \/ PropagateLoop
  \/ AltPass

PropSpec == InitProp /\ [][NextProp]_vars

\* =================================================================
\* Properties
\* =================================================================

\* The 27 units of the grid, stated from the geometry of a 9x9 sudoku and
\* not from neighbors_of.
Units ==
  {{c \in Cells : c \div 9 = r} : r \in 0 .. 8}
    \cup {{c \in Cells : c % 9 = k} : k \in 0 .. 8}
    \cup {{c \in Cells : c \div 27 = br /\ (c % 9) \div 3 = bc} :
            br \in 0 .. 2, bc \in 0 .. 2}

\* Every cell holds one digit and every unit holds each digit 1..9.
IsValidGrid(cells) ==
  /\ \A c \in Cells : Cardinality(cells[c]) = 1
  /\ \A u \in Units : UNION {cells[c] : c \in u} = 1 .. 9

Blanks(cells) == {c \in Cells : cells[c] = 1 .. 9}

Clues(cells) == {c \in Cells : Cardinality(cells[c]) = 1}

\* main has the result of sb.solve() in hand.
SolveReturned == pc = "return" /\ stack = <<>>

InSolve == pc \in {"propagate", "propagated", "loop", "return"}

\* ---- C1

\* C1: when solve returns Some(board), every cell of the board is a
\* singleton and every row, column and 3x3 box holds each digit 1..9 exactly
\* once.
C1_SolvedBoardIsValidGrid == ret.some => IsValidGrid(ret.cells)

\* solve has returned a board to main for a puzzle with 36 or more blanks.
C1_Witness ==
  /\ SolveReturned
  /\ ret.some
  /\ Cardinality(Blanks(sb)) >= 36

\* ---- C2

BaseCells == [c \in Cells |-> {BaseGrid[c + 1]}]

\* g is a valid complete grid that agrees with the candidates of cells.
Completes(g, cells) == IsValidGrid(g) /\ \A c \in Cells : g[c] \subseteq cells[c]

\* C2: solve returns None only when the input has no valid completion; so
\* it does not return None on an input that BaseGrid completes.
C2_NoneOnlyWithoutCompletion ==
  (SolveReturned /\ ~ret.some) => ~Completes(BaseCells, sb)

\* ---- C3

\* The text between the first and the last character that is not white
\* space.
Core(s) ==
  LET keep == {k \in 1 .. Len(s) : s[k] \notin {" ", "\t", "\n", "\r"}}
  IN  IF keep = {}
      THEN <<>>
      ELSE SubSeq(s, CHOOSE k \in keep : \A j \in keep : k <= j,
                     CHOOSE k \in keep : \A j \in keep : j <= k)

\* The line without its trailing newline (LF or CRLF), and nothing else
\* removed.
StripNewline(s) ==
  IF Len(s) > 1 /\ s[Len(s) - 1] = "\r" /\ s[Len(s)] = "\n"
  THEN SubSeq(s, 1, Len(s) - 2)
  ELSE IF Len(s) > 0 /\ s[Len(s)] = "\n"
       THEN SubSeq(s, 1, Len(s) - 1)
       ELSE s

\* Exactly 81 characters, each '.' or a digit '1'..'9'.
WellFormed(t) ==
  /\ Len(t) = 81
  /\ \A k \in 1 .. Len(t) :
       t[k] \in {".", "1", "2", "3", "4", "5", "6", "7", "8", "9"}

\* The line in buf was accepted by from_str (a solve of it is under way or
\* over) exactly when `text` of it is well formed, and was refused (the
\* process is in its fatal state) exactly when it is not.
ParseDecision(text(_)) ==
  /\ (InSolve \/ (pc = "read" /\ pos > 0)) => WellFormed(text(buf))
  /\ pc = "fatal" => ~WellFormed(text(buf))

\* C3 as amended: a line is accepted if and only if, after its leading and
\* trailing white space is stripped, it is 81 characters of {'.', '1'..'9'};
\* every other line ends in the parse error and is never solved.
C3_AcceptedIffTrimmedWellFormed == ParseDecision(Core)

\* C3 as stated: only the trailing newline is stripped, so a line with
\* leading or trailing blanks or tabs is refused.
C3_AcceptedIffNewlineStrippedWellFormed == ParseDecision(StripNewline)

\* A line wrapped in white space is being solved, and a line with a bad
\* character has ended the process.
C3_Witness ==
  \/ /\ InSolve
     /\ Len(buf) > 0
     /\ buf[1] \in {" ", "\t"}
  \/ /\ pc = "fatal"
     /\ Len(StripNewline(buf)) = 81

\* ---- C4

IsBoardLine(l) ==
  /\ Len(l) = 81
  /\ \A k \in 1 .. Len(l) : l[k] \in {"1", "2", "3", "4", "5", "6", "7", "8", "9"}

IsResultLine(l) == IsBoardLine(l) \/ l = <<"No solution">>

\* l is a result line, and when it is a board it carries the clues of line.
IsResultFor(l, line) ==
  /\ IsResultLine(l)
  /\ IsBoardLine(l) =>
       LET text == Core(line)
       IN  \A k \in 1 .. Len(text) : text[k] \in {".", l[k]}

\* The index of the first line of the input that is not valid; one past the
\* last line when every line is valid.
FirstMalformed(valid(_)) ==
  LET bad == {k \in 1 .. Len(input) : ~valid(input[k])}
  IN  IF bad = {}
      THEN Len(input) + 1
      ELSE CHOOSE k \in bad : \A j \in bad : k <= j

\* The number of lines main has dealt with completely.
LinesDone == IF pc \in {"read", "exit", "fatal"} THEN pos ELSE pos - 1

\* Lines are read in order up to the first malformed one and no further;
\* each valid line before it has exactly one output line, a result for that
\* line, at its position in the output; the first malformed line puts the
\* process in its fatal state with no result line for it; without a
\* malformed line the process ends normally with one result per line.
LineByLine(valid(_)) ==
  LET fm == FirstMalformed(valid)
  IN  /\ pos <= fm
      /\ Len(out) = LinesDone
      /\ \A k \in 1 .. Len(out) :
           IF k < fm
           THEN IsResultFor(out[k], input[k])
           ELSE k = fm /\ ~IsResultLine(out[k])
      /\ (pos = fm /\ pc # "from_str") => pc = "fatal"
      /\ pc = "fatal" => pos = fm
      /\ pc = "exit" => (fm = Len(input) + 1 /\ Len(out) = Len(input))

ValidTrimmed(line) == WellFormed(Core(line))

ValidNewlineStripped(line) == WellFormed(StripNewline(line))

\* C4 as amended: with a line counted as valid when it is well formed after
\* its leading and trailing white space is stripped, every valid line before
\* the first malformed one produces exactly one output line, in input
\* order; the first malformed line ends the process in the fatal state with
\* no result line, and no later line is read.
C4_LineByLineTrimmed == LineByLine(ValidTrimmed)

\* C4 as stated, with a line valid when it is well formed once its trailing
\* newline alone is stripped.
C4_LineByLineNewlineStripped == LineByLine(ValidNewlineStripped)

\* The second line has ended the process after a result for the first, and
\* a two-line input has ended normally with two results.
C4_Witness ==
  \/ /\ pc = "fatal"
     /\ pos = 2
     /\ Len(input) = 2
     /\ IsBoardLine(out[1])
  \/ /\ pc = "exit"
     /\ Len(out) = 2
     /\ IsBoardLine(out[2])

\* ---- C5

\* No two clue cells of one unit hold the same digit.
NoClueConflict(cells) ==
  \A u \in Units : \A d \in 1 .. 9 :
    Cardinality({c \in u : cells[c] = {d}}) <= 1

CluesKept(cells0, cells) == \A c \in Clues(cells0) : cells[c] = cells0[c]

\* The board from_str built holds, for every character of the line that is
\* not '.', the singleton of that digit.
CluesFromText ==
  LET text == Core(buf)
  IN  \A c \in Cells :
        text[c + 1] # "." =>
          \E d \in 1 .. 9 : ToString(d) = text[c + 1] /\ sb[c] = {d}

\* Every clue cell of the input still holds the singleton of its clue in the
\* board of every active call of solve and in the board solve returns.
CluesKeptEverywhere ==
  /\ \A k \in 1 .. Len(stack) : CluesKept(sb, stack[k].newboard)
  /\ (pc = "return" /\ ret.some) => CluesKept(sb, ret.cells)

BothRunsDone == pc = "propagated" /\ altdone

AllCellsNonEmpty(cells) == \A c \in Cells : cells[c] # {}

\* C6 as amended: when the board propagate returns has no empty cell, the
\* same update rule run in any other visitation order returns the same
\* board; and whether the returned board has an empty cell does not depend
\* on the order.
C6_OrderIndependentWhenConsistent ==
  BothRunsDone =>
    /\ AllCellsNonEmpty(Top.newboard) <=> AllCellsNonEmpty(alt)
    /\ AllCellsNonEmpty(Top.newboard) => alt = Top.newboard

\* C6 as stated: on every board, consistent or not, every order ends in the
\* board the code's order ends in.
C6_OrderIndependentAlways == BothRunsDone => alt = Top.newboard

\* Both runs are over, the other one in an order that is not the code's, on
\* a board from which propagation removed candidates and left none empty.
C6_Witness ==
  /\ BothRunsDone
  /\ order # CodeOrder
  /\ AllCellsNonEmpty(alt)
  /\ alt # sb

\* ---- C7

RECURSIVE TotalRange(_, _, _)
TotalRange(cells, lo, hi) ==
  IF hi = lo + 1
  THEN Cardinality(cells[lo])
  ELSE TotalRange(cells, lo, (lo + hi) \div 2)
         + TotalRange(cells, (lo + hi) \div 2, hi)

\* The candidate-set cardinalities summed over the board.
Total(cells) == TotalRange(cells, 0, 81)

\* A pass of propagate's loop: no cell gains a digit; a pass that reports a
\* change lowers the total, and a pass that reports none leaves the board
\* as it was.
PassShrinks ==
  pc = "propagate" =>
    /\ \A c \in Cells : Top'.newboard[c] \subseteq Top.newboard[c]
    /\ pc' = "propagate" => Total(Top'.newboard) < Total(Top.newboard)
    /\ pc' = "propagated" => Top'.newboard = Top.newboard

\* The board propagate returns is one on which another pass changes nothing.
ReturnsFixedPoint ==
  pc = "propagated" =>
    LET again == PropagatePass(Top.newboard)
    IN  ~again.changed /\ again.cells = Top.newboard

\* C7: within propagate's loop no cell gains a digit and every pass that
\* reports a change lowers the total cardinality, the loop reaches a pass
\* with no change, and the board returned is a fixed point of the pass.
C7_PropagateTerminatesAtFixedPoint ==
  /\ [][PassShrinks]_vars
  /\ []ReturnsFixedPoint
  /\ (pc = "propagate") ~> (pc = "propagated")

\* A propagate inside the search has returned after removing candidates.
C7_Witness ==
  /\ pc = "propagated"
  /\ Len(stack) >= 2
  /\ Total(Top.newboard) < Total(stack[Len(stack) - 1].newboard)

\* ---- C8

SubBoard(a, b) == \A c \in Cells : a[c] \subseteq b[c]

\* The board call k of solve was made on: main's board for the outermost
\* call, the caller's narrowed newboard for the others.
Self(k) == IF k = 1 THEN sb ELSE stack[k - 1].newboard

\* newboard of call k as propagate returned it, before the loop over c
\* narrowed the chosen cell.
Propagated(k) ==
  IF stack[k].cell < NSQ
  THEN [stack[k].newboard EXCEPT ![stack[k].cell] = stack[k].cell_candidates]
  ELSE stack[k].newboard

\* C8: the board solve returns agrees with the input (each cell's digit is
\* a candidate of that cell in the input, so a fully solved valid input
\* comes back unchanged), and along the chain of recursive calls each
\* cell's candidate set is a subset of what it was in the caller's board.
C8_ResultWithinInput ==
  InSolve =>
    /\ \A k \in 1 .. Len(stack) :
         /\ SubBoard(stack[k].newboard, Propagated(k))
         /\ SubBoard(Propagated(k), Self(k))
    /\ (pc = "return" /\ ret.some) =>
         /\ SubBoard(ret.cells, Self(Len(stack) + 1))
         /\ \A c \in Cells : Cardinality(ret.cells[c]) = 1
    /\ (SolveReturned /\ IsValidGrid(sb)) => (ret.some /\ ret.cells = sb)

\* A solved board found three calls deep is on its way back to main.
C8_Witness ==
  /\ pc = "return"
  /\ ret.some
  /\ Len(stack) >= 2
  /\ ret.cells # sb

\* ---- C9

Unsolved(cells) == {c \in Cells : Cardinality(cells[c]) # 1}

\* The unsolved cells with the fewest candidates.
Fewest(cells) ==
  {c \in Unsolved(cells) :
     \A e \in Unsolved(cells) : Cardinality(cells[c]) <= Cardinality(cells[e])}

\* C9: on a propagated board that is neither solved nor inconsistent,
\* most_promising returns Some(i), i the lowest index among the unsolved
\* cells of least cardinality, whatever that cardinality is.
C9_MostPromisingIsLeastLowest ==
  (/\ pc = "propagated"
   /\ AllCellsNonEmpty(Top.newboard)
   /\ Unsolved(Top.newboard) # {}) =>
    LET mp == most_promising(Top.newboard)
    IN  /\ mp.some
        /\ mp.idx \in Fewest(Top.newboard)
        /\ \A e \in Fewest(Top.newboard) : mp.idx <= e

\* ---- C10

\* Call k has chosen its cell and is in, or past, its loop over c.
Branched(k) == stack[k].cell < NSQ

\* The depth of the recursion is at most 81; every call that branched did
\* so on a cell with two or more candidates in its propagated board, a cell
\* no caller above it branched on; the board handed to the next call has
\* that cell narrowed to one of those candidates; and a cell solved in the
\* board a call was made on has at most one candidate in every board
\* further down the chain.
BranchOncePerCell ==
  /\ Len(stack) <= 81
  /\ \A k \in 1 .. Len(stack) :
       /\ Branched(k) =>
            /\ Cardinality(stack[k].cell_candidates) >= 2
            /\ \A j \in 1 .. (k - 1) : stack[j].cell # stack[k].cell
       /\ k < Len(stack) =>
            /\ Branched(k)
            /\ Cardinality(Self(k + 1)[stack[k].cell]) = 1
            /\ Self(k + 1)[stack[k].cell] \subseteq stack[k].cell_candidates
       /\ \A c \in Clues(Self(k)) : Cardinality(Top.newboard[c]) <= 1

\* C10: solve terminates on every input (the program reaches the end of its
\* input or its fatal state) and its recursion is at most 81 deep, with at
\* most one branch point per cell on any path of the search.
C10_SolveTerminatesDepthBounded ==
  /\ []BranchOncePerCell
  /\ <>(pc \in {"exit", "fatal"})

\* The search is forty calls deep.
C10_Witness == Len(stack) >= 40

====
